---- MODULE Spec2Model ----
(***************************************************************************)
(* Model of messaging/nats.go: ConfigureNatsConnection, ConnectToNats,     *)
(* discoverNatsURLs, ServerString and the callback built by ErrorHandler.  *)
(*                                                                         *)
(* The packages nats.go calls (discovery, tls, nats, logrus, nhook) are    *)
(* the environment: each call's outcome is chosen nondeterministically     *)
(* and recorded in `calls`, the way a test double records its calls.       *)
(***************************************************************************)
EXTENDS Naturals, Sequences, FiniteSets, TLC

VARIABLES
    pc,          \* position of the caller's goroutine in nats.go
    entry,       \* which exported function the caller entered
    config,      \* the caller's *NatsConfig (the object itself, not a copy)
    config0,     \* the value of *config when the call was made
    errHandler,  \* ConnectToNats's errHandler parameter
    options,     \* the options slice ConnectToNats built last
    nc,          \* what ConnectToNats returned: [conn, err]
    result,      \* what the entered function returned: [conn, err]
    hooks,       \* logrus's global hooks added by logrus.AddHook, in order
    calls,       \* the calls made to other packages during the current call
    nCalls,      \* calls of the exported functions made so far
    nConn,       \* connections nats.Connect has handed out so far
    hpc,         \* per dispatch goroutine: position in the ErrorHandler closure
    hin,         \* per dispatch goroutine: the closure's arguments and its id
    herr,        \* per dispatch goroutine: the closure's local `err`
    hl,          \* per dispatch goroutine: the closure's local `l` (its fields)
    connStatus,  \* per connection: what conn.Status() returns now
    subValid,    \* per subscription: FALSE once it was unsubscribed/closed
    log,         \* the entries written through errLogger, in order
    invs         \* every callback invocation made so far: its arguments and
                 \* what conn.Status() and sub.Pending() returned to it

cvars == <<pc, entry, config, config0, errHandler, options, nc, result, hooks,
           calls, nCalls, nConn>>
hvars == <<hpc, hin, herr, hl, connStatus, subValid, log, invs>>
vars == <<cvars, hvars>>

----------------------------------------------------------------------------
(* Bounds *)

MaxServers == 2
MaxEndpoints == 2
MaxCalls == 2
MaxInvocations == 2

----------------------------------------------------------------------------
(* Values *)

NoErr == "<nil>"
NilConn == 0
NilHandler == "nil"
NilConfig == [nil |-> TRUE]
NilTLS == [nil |-> TRUE]
NilSettings == "nil"

SeqsUpTo(S, n) == UNION {[1..k -> S] : k \in 0..n}

ServerAddrs == {"nats://h1:4222", "b:4223"}

TLSConfigs == {NilTLS, [CAFiles |-> <<"ca.pem">>, CertFile |-> "cert.pem", KeyFile |-> "key.pem"]}

NatsConfig ==
    [TLS : TLSConfigs,
     DiscoveryName : {"", "nats-svc"},
     Servers : SeqsUpTo(ServerAddrs, MaxServers),
     LogsSubject : {"", "logs"}]

\* discovery.DiscoverEndpoints: endpoints carry a Target and a (uint16) Port
Endpoints == {[Target |-> "h1", Port |-> 4222], [Target |-> "h2", Port |-> 80]}
DiscoveryErrors == {"discovery: lookup failed"}
DiscoverEndpointsOutcomes ==
    {[endpoints |-> <<>>, err |-> e] : e \in DiscoveryErrors}
    \cup {[endpoints |-> es, err |-> NoErr] : es \in SeqsUpTo(Endpoints, MaxEndpoints)}

\* (*tls.Config).TLSConfig(): settings, no settings, or a failure
TLSBuildErrors == {"tls: bad key pair"}
TLSConfigOutcomes ==
    {[tlsConfig |-> "settings", err |-> NoErr], [tlsConfig |-> NilSettings, err |-> NoErr]}
    \cup {[tlsConfig |-> NilSettings, err |-> e] : e \in TLSBuildErrors}

\* nats.Connect: a connection or a failure
ConnectErrors == {"nats: no servers available for connection"}

\* the goroutines on which the nats client runs the error callback
Dispatchers == {"d1", "d2"}

\* live connections and the subscriptions made on them
Conns == {"nc1", "nc2"}
Subs ==
    {[Subject |-> "orders", Queue |-> "workers", conn |-> "nc1"],
     [Subject |-> "events", Queue |-> "", conn |-> "nc2"]}

\* nats.Status values a live connection moves between
Statuses == {"CONNECTED", "RECONNECTING"}

ErrSlowConsumer == "nats: slow consumer, messages dropped"
ErrTimeout == "nats: timeout"
ErrBadSubscription == "nats: invalid subscription"
NatsErrors == {ErrSlowConsumer, ErrTimeout}

\* counts sub.Pending() may report
PendingCounts == {0, 42}

NoInvocation == [id |-> 0]
NoFields == [component |-> "error-logger"]

----------------------------------------------------------------------------
(* Pure functions *)

Digits == <<"0", "1", "2", "3", "4", "5", "6", "7", "8", "9">>

\* the %d verb of fmt.Sprintf on an unsigned port number
RECURSIVE Itoa(_)
Itoa(n) == IF n < 10 THEN Digits[n + 1] ELSE Itoa(n \div 10) \o Digits[(n % 10) + 1]

\* NatsURL with the format string "nats://%s%d": the colon is lost
NatsURL_NoColon(endpoint) == "nats://" \o endpoint.Target \o Itoa(endpoint.Port)

\* fmt.Sprintf("nats://%s:%d", endpoint.Target, endpoint.Port)
NatsURL(endpoint) == "nats://" \o endpoint.Target \o ":" \o Itoa(endpoint.Port)

\* the loop of discoverNatsURLs: one URL per endpoint, appended in order
RECURSIVE NatsURLsFrom(_, _)
NatsURLsFrom(endpoints, natsURLs) ==
    IF endpoints = <<>> THEN natsURLs
    ELSE NatsURLsFrom(Tail(endpoints), Append(natsURLs, NatsURL(Head(endpoints))))

discoverNatsURLs(outcome) ==
    IF outcome.err # NoErr
    THEN [servers |-> <<>>, err |-> outcome.err]
    ELSE [servers |-> NatsURLsFrom(outcome.endpoints, <<>>), err |-> NoErr]

\* strings.Join: the first element, then separator and element for the rest
RECURSIVE JoinFrom(_, _, _, _)
JoinFrom(elems, sep, i, acc) ==
    IF i > Len(elems) THEN acc ELSE JoinFrom(elems, sep, i + 1, acc \o sep \o elems[i])

Join(elems, sep) ==
    IF Len(elems) = 0 THEN ""
    ELSE IF Len(elems) = 1 THEN elems[1]
    ELSE JoinFrom(elems, sep, 2, elems[1])

ServerString(c) == Join(c.Servers, ",")

----------------------------------------------------------------------------
(* Initial state *)

Init ==
    /\ pc = "idle"
    /\ entry = "none"
    /\ config = NilConfig
    /\ config0 = NilConfig
    /\ errHandler = NilHandler
    /\ options = <<>>
    /\ nc = [conn |-> NilConn, err |-> NoErr]
    /\ result = [conn |-> NilConn, err |-> NoErr]
    /\ hooks = <<>>
    /\ calls = <<>>
    /\ nCalls = 0
    /\ nConn = 0
    /\ hpc = [d \in Dispatchers |-> "idle"]
    /\ hin = [d \in Dispatchers |-> NoInvocation]
    /\ herr = [d \in Dispatchers |-> NoErr]
    /\ hl = [d \in Dispatchers |-> NoFields]
    /\ connStatus = [c \in Conns |-> "CONNECTED"]
    /\ subValid = [s \in Subs |-> TRUE]
    /\ log = <<>>
    /\ invs = <<>>

----------------------------------------------------------------------------
(* The caller's goroutine *)

Called(op, in, out, err) == [op |-> op, in |-> in, out |-> out, err |-> err]

\* ErrorHandler(log) returns a closure: never nil
ErrorHandlerClosure == "ErrorHandler(log)"

\* a caller enters ConfigureNatsConnection(config, log)
CallConfigure ==
    /\ pc = "idle"
    /\ nCalls < MaxCalls
    /\ \E c \in NatsConfig \cup {NilConfig} :
        /\ config' = c
        /\ config0' = c
    /\ entry' = "ConfigureNatsConnection"
    /\ pc' = "configure"
    /\ nCalls' = nCalls + 1
    /\ errHandler' = NilHandler
    /\ calls' = <<>>
    /\ nc' = [conn |-> NilConn, err |-> NoErr]
    /\ result' = [conn |-> NilConn, err |-> NoErr]
    /\ UNCHANGED <<options, hooks, nConn, hvars>>

\* a caller enters ConnectToNats(config, errHandler) directly
CallConnect ==
    /\ pc = "idle"
    /\ nCalls < MaxCalls
    /\ \E c \in NatsConfig :
        /\ config' = c
        /\ config0' = c
    /\ \E h \in {NilHandler, "custom"} : errHandler' = h
    /\ entry' = "ConnectToNats"
    /\ pc' = "discover"
    /\ nCalls' = nCalls + 1
    /\ calls' = <<>>
    /\ nc' = [conn |-> NilConn, err |-> NoErr]
    /\ result' = [conn |-> NilConn, err |-> NoErr]
    /\ UNCHANGED <<options, hooks, nConn, hvars>>

\* ConfigureEnter treating a nil config as an error instead of a no-op
ConfigureEnter_NilIsError ==
    /\ pc = "configure"
    /\ IF config = NilConfig
       THEN /\ result' = [conn |-> NilConn, err |-> "messaging: no nats config"]
            /\ pc' = "done"
            /\ UNCHANGED errHandler
       ELSE /\ errHandler' = ErrorHandlerClosure
            /\ pc' = "discover"
            /\ UNCHANGED result
    /\ UNCHANGED <<entry, config, config0, options, nc, hooks, calls, nCalls, nConn, hvars>>

\* ConfigureNatsConnection, the nil check and the call of ConnectToNats
ConfigureEnter ==
    /\ pc = "configure"
    /\ IF config = NilConfig
       THEN /\ result' = [conn |-> NilConn, err |-> NoErr]
            /\ pc' = "done"
            /\ UNCHANGED errHandler
       ELSE /\ errHandler' = ErrorHandlerClosure
            /\ pc' = "discover"
            /\ UNCHANGED result
    /\ UNCHANGED <<entry, config, config0, options, nc, hooks, calls, nCalls, nConn, hvars>>

\* ConnectToNats returns (nil, err) to whoever called it
ConnectReturns(conn, err) ==
    /\ nc' = [conn |-> conn, err |-> err]
    /\ IF entry = "ConnectToNats"
       THEN /\ result' = [conn |-> conn, err |-> err]
            /\ pc' = "done"
       ELSE /\ pc' = "configure_ret"
            /\ UNCHANGED result

\* ConnectToNats, the discovery block
Discover ==
    /\ pc = "discover"
    /\ IF config.DiscoveryName # ""
       THEN \E outcome \in DiscoverEndpointsOutcomes :
             LET r == discoverNatsURLs(outcome) IN
             /\ calls' = Append(calls, Called("DiscoverEndpoints", config.DiscoveryName,
                                              outcome.endpoints, outcome.err))
             /\ IF r.err # NoErr
                THEN /\ ConnectReturns(NilConn, r.err)
                     /\ UNCHANGED config
                ELSE /\ config' = [config EXCEPT !.Servers = r.servers]
                     /\ pc' = "tls"
                     /\ UNCHANGED <<nc, result>>
       ELSE /\ pc' = "tls"
            /\ UNCHANGED <<config, calls, nc, result>>
    /\ UNCHANGED <<entry, config0, errHandler, options, hooks, nCalls, nConn, hvars>>

\* BuildTLS without the `tlsConfig != nil` test: nil settings become an option
BuildTLS_NoNilCheck ==
    /\ pc = "tls"
    /\ IF config.TLS # NilTLS
       THEN \E outcome \in TLSConfigOutcomes :
             /\ calls' = Append(calls, Called("TLSConfig", config.TLS,
                                              outcome.tlsConfig, outcome.err))
             /\ IF outcome.err # NoErr
                THEN /\ ConnectReturns(NilConn, outcome.err)
                     /\ options' = <<>>
                ELSE /\ options' = Append(<<>>, [kind |-> "Secure", arg |-> outcome.tlsConfig])
                     /\ pc' = "connect"
                     /\ UNCHANGED <<nc, result>>
       ELSE /\ options' = <<>>
            /\ pc' = "connect"
            /\ UNCHANGED <<calls, nc, result>>
    /\ UNCHANGED <<entry, config, config0, errHandler, hooks, nCalls, nConn, hvars>>

\* ConnectToNats, the TLS block
BuildTLS ==
    /\ pc = "tls"
    /\ IF config.TLS # NilTLS
       THEN \E outcome \in TLSConfigOutcomes :
             /\ calls' = Append(calls, Called("TLSConfig", config.TLS,
                                              outcome.tlsConfig, outcome.err))
             /\ IF outcome.err # NoErr
                THEN /\ ConnectReturns(NilConn, outcome.err)
                     /\ options' = <<>>
                ELSE /\ options' = IF outcome.tlsConfig # NilSettings
                                   THEN Append(<<>>, [kind |-> "Secure", arg |-> outcome.tlsConfig])
                                   ELSE <<>>
                     /\ pc' = "connect"
                     /\ UNCHANGED <<nc, result>>
       ELSE /\ options' = <<>>
            /\ pc' = "connect"
            /\ UNCHANGED <<calls, nc, result>>
    /\ UNCHANGED <<entry, config, config0, errHandler, hooks, nCalls, nConn, hvars>>

\* Connect with the handler option put in front of the options built so far
Connect_HandlerFirst ==
    /\ pc = "connect"
    /\ LET opts == IF errHandler # NilHandler
                   THEN <<[kind |-> "ErrorHandler", arg |-> errHandler]>> \o options
                   ELSE options
       IN
       /\ options' = opts
       /\ \/ /\ calls' = Append(calls, Called("Connect",
                                  [servers |-> ServerString(config), options |-> opts],
                                  nConn + 1, NoErr))
             /\ nConn' = nConn + 1
             /\ ConnectReturns(nConn + 1, NoErr)
          \/ \E e \in ConnectErrors :
             /\ calls' = Append(calls, Called("Connect",
                                  [servers |-> ServerString(config), options |-> opts],
                                  NilConn, e))
             /\ nConn' = nConn
             /\ ConnectReturns(NilConn, e)
    /\ UNCHANGED <<entry, config, config0, errHandler, hooks, nCalls, hvars>>

\* ConnectToNats, the error-handler option and nats.Connect
Connect ==
    /\ pc = "connect"
    /\ LET opts == IF errHandler # NilHandler
                   THEN Append(options, [kind |-> "ErrorHandler", arg |-> errHandler])
                   ELSE options
       IN
       /\ options' = opts
       /\ \/ /\ calls' = Append(calls, Called("Connect",
                                  [servers |-> ServerString(config), options |-> opts],
                                  nConn + 1, NoErr))
             /\ nConn' = nConn + 1
             /\ ConnectReturns(nConn + 1, NoErr)
          \/ \E e \in ConnectErrors :
             /\ calls' = Append(calls, Called("Connect",
                                  [servers |-> ServerString(config), options |-> opts],
                                  NilConn, e))
             /\ nConn' = nConn
             /\ ConnectReturns(NilConn, e)
    /\ UNCHANGED <<entry, config, config0, errHandler, hooks, nCalls, hvars>>

\* ConfigureReturn dropping the error: `return nil, nil` on a failed connect
ConfigureReturn_Swallow ==
    /\ pc = "configure_ret"
    /\ IF nc.err # NoErr
       THEN /\ result' = [conn |-> NilConn, err |-> NoErr]
            /\ UNCHANGED <<hooks, calls>>
       ELSE /\ IF config.LogsSubject # ""
               THEN /\ hooks' = Append(hooks, [conn |-> nc.conn, subject |-> config.LogsSubject])
                    /\ calls' = Append(calls, Called("AddHook",
                                   [conn |-> nc.conn, subject |-> config.LogsSubject],
                                   NilConn, NoErr))
               ELSE UNCHANGED <<hooks, calls>>
            /\ result' = [conn |-> nc.conn, err |-> NoErr]
    /\ pc' = "done"
    /\ UNCHANGED <<entry, config, config0, errHandler, options, nc, nCalls, nConn, hvars>>

\* ConfigureReturn adding the hook before it looks at the error
ConfigureReturn_HookFirst ==
    /\ pc = "configure_ret"
    /\ IF config.LogsSubject # ""
       THEN /\ hooks' = Append(hooks, [conn |-> nc.conn, subject |-> config.LogsSubject])
            /\ calls' = Append(calls, Called("AddHook",
                           [conn |-> nc.conn, subject |-> config.LogsSubject],
                           NilConn, NoErr))
       ELSE UNCHANGED <<hooks, calls>>
    /\ result' = IF nc.err # NoErr THEN [conn |-> NilConn, err |-> nc.err]
                                   ELSE [conn |-> nc.conn, err |-> NoErr]
    /\ pc' = "done"
    /\ UNCHANGED <<entry, config, config0, errHandler, options, nc, nCalls, nConn, hvars>>

\* ConfigureNatsConnection after ConnectToNats returned
ConfigureReturn ==
    /\ pc = "configure_ret"
    /\ IF nc.err # NoErr
       THEN /\ result' = [conn |-> NilConn, err |-> nc.err]
            /\ UNCHANGED <<hooks, calls>>
       ELSE /\ IF config.LogsSubject # ""
               THEN /\ hooks' = Append(hooks, [conn |-> nc.conn, subject |-> config.LogsSubject])
                    /\ calls' = Append(calls, Called("AddHook",
                                   [conn |-> nc.conn, subject |-> config.LogsSubject],
                                   NilConn, NoErr))
               ELSE UNCHANGED <<hooks, calls>>
            /\ result' = [conn |-> nc.conn, err |-> NoErr]
    /\ pc' = "done"
    /\ UNCHANGED <<entry, config, config0, errHandler, options, nc, nCalls, nConn, hvars>>

\* the caller takes the result; the callee's locals are gone
Return ==
    /\ pc = "done"
    /\ pc' = "idle"
    /\ entry' = "none"
    /\ config' = NilConfig
    /\ config0' = NilConfig
    /\ errHandler' = NilHandler
    /\ calls' = <<>>
    /\ nc' = [conn |-> NilConn, err |-> NoErr]
    /\ result' = [conn |-> NilConn, err |-> NoErr]
    /\ UNCHANGED <<options, hooks, nCalls, nConn, hvars>>

----------------------------------------------------------------------------
(* The closure returned by ErrorHandler, run by the client's dispatchers *)

\* sub.Pending(): fails on a subscription that is no longer valid
PendingOutcomes(sub) ==
    IF subValid[sub]
    THEN {[pendingMsgs |-> n, perr |-> NoErr] : n \in PendingCounts}
    ELSE {[pendingMsgs |-> 0, perr |-> ErrBadSubscription]}

\* logrus: Entry.WithField(s) returns a new entry holding the old fields and the new
WithFields(l, fields) == fields @@ l

\* HandlerInvoke with `l` declared outside the closure: one entry shared by all
HandlerInvoke_SharedEntry(d) ==
    /\ hpc[d] = "idle"
    /\ Len(invs) < MaxInvocations
    /\ \E sub \in Subs, natsErr \in NatsErrors :
        /\ hin' = [hin EXCEPT ![d] = [id |-> Len(invs) + 1, conn |-> sub.conn,
                                      sub |-> sub, natsErr |-> natsErr]]
        /\ invs' = Append(invs, [conn |-> sub.conn, sub |-> sub, natsErr |-> natsErr,
                                 status |-> connStatus[sub.conn],
                                 fetched |-> FALSE, pendingMsgs |-> 0, perr |-> NoErr])
        /\ herr' = [herr EXCEPT ![d] = natsErr]
        /\ hl' = [x \in Dispatchers |-> WithFields(NoFields,
                        [subject |-> sub.Subject, group |-> sub.Queue,
                         conn_status |-> connStatus[sub.conn]])]
    /\ hpc' = [hpc EXCEPT ![d] = "classify"]
    /\ UNCHANGED <<connStatus, subValid, log, cvars>>

\* err := natsErr; l := errLogger.WithFields(subject, group, conn_status)
HandlerInvoke(d) ==
    /\ hpc[d] = "idle"
    /\ Len(invs) < MaxInvocations
    /\ \E sub \in Subs, natsErr \in NatsErrors :
        /\ hin' = [hin EXCEPT ![d] = [id |-> Len(invs) + 1, conn |-> sub.conn,
                                      sub |-> sub, natsErr |-> natsErr]]
        /\ invs' = Append(invs, [conn |-> sub.conn, sub |-> sub, natsErr |-> natsErr,
                                 status |-> connStatus[sub.conn],
                                 fetched |-> FALSE, pendingMsgs |-> 0, perr |-> NoErr])
        /\ herr' = [herr EXCEPT ![d] = natsErr]
        /\ hl' = [hl EXCEPT ![d] = WithFields(NoFields,
                        [subject |-> sub.Subject, group |-> sub.Queue,
                         conn_status |-> connStatus[sub.conn]])]
    /\ hpc' = [hpc EXCEPT ![d] = "classify"]
    /\ UNCHANGED <<connStatus, subValid, log, cvars>>

\* HandlerClassify keeping the slow-consumer error when the fetch fails
HandlerClassify_KeepErr(d) ==
    /\ hpc[d] = "classify"
    /\ IF herr[d] = ErrSlowConsumer
       THEN \E p \in PendingOutcomes(hin[d].sub) :
             /\ invs' = [invs EXCEPT ![hin[d].id] =
                            [@ EXCEPT !.fetched = TRUE, !.pendingMsgs = p.pendingMsgs,
                                      !.perr = p.perr]]
             /\ IF p.perr # NoErr
                THEN UNCHANGED <<herr, hl>>
                ELSE /\ hl' = [hl EXCEPT ![d] =
                                 WithFields(@, [pending_messages |-> p.pendingMsgs])]
                     /\ UNCHANGED herr
       ELSE UNCHANGED <<invs, herr, hl>>
    /\ hpc' = [hpc EXCEPT ![d] = "emit"]
    /\ UNCHANGED <<hin, connStatus, subValid, log, cvars>>

\* HandlerClassify fetching the pending count for every error
HandlerClassify_AlwaysFetch(d) ==
    /\ hpc[d] = "classify"
    /\ \E p \in PendingOutcomes(hin[d].sub) :
          /\ invs' = [invs EXCEPT ![hin[d].id] =
                         [@ EXCEPT !.fetched = TRUE, !.pendingMsgs = p.pendingMsgs,
                                   !.perr = p.perr]]
          /\ IF p.perr # NoErr
             THEN /\ herr' = [herr EXCEPT ![d] = p.perr]
                  /\ UNCHANGED hl
             ELSE /\ hl' = [hl EXCEPT ![d] =
                              WithFields(@, [pending_messages |-> p.pendingMsgs])]
                  /\ UNCHANGED herr
    /\ hpc' = [hpc EXCEPT ![d] = "emit"]
    /\ UNCHANGED <<hin, connStatus, subValid, log, cvars>>

\* the slow-consumer branch: fetch the pending count, keep it or its failure
HandlerClassify(d) ==
    /\ hpc[d] = "classify"
    /\ IF herr[d] = ErrSlowConsumer
       THEN \E p \in PendingOutcomes(hin[d].sub) :
             /\ invs' = [invs EXCEPT ![hin[d].id] =
                            [@ EXCEPT !.fetched = TRUE, !.pendingMsgs = p.pendingMsgs,
                                      !.perr = p.perr]]
             /\ IF p.perr # NoErr
                THEN /\ herr' = [herr EXCEPT ![d] = p.perr]
                     /\ UNCHANGED hl
                ELSE /\ hl' = [hl EXCEPT ![d] =
                                 WithFields(@, [pending_messages |-> p.pendingMsgs])]
                     /\ UNCHANGED herr
       ELSE UNCHANGED <<invs, herr, hl>>
    /\ hpc' = [hpc EXCEPT ![d] = "emit"]
    /\ UNCHANGED <<hin, connStatus, subValid, log, cvars>>

\* l.WithError(err).Error("Error while consuming from " + sub.Subject)
HandlerEmit(d) ==
    /\ hpc[d] = "emit"
    /\ log' = Append(log, [inv |-> hin[d].id, level |-> "error",
                           msg |-> "Error while consuming from " \o hin[d].sub.Subject,
                           fields |-> hl[d], err |-> herr[d]])
    /\ hpc' = [hpc EXCEPT ![d] = "idle"]
    /\ hin' = [hin EXCEPT ![d] = NoInvocation]
    /\ herr' = [herr EXCEPT ![d] = NoErr]
    /\ hl' = [hl EXCEPT ![d] = NoFields]
    /\ UNCHANGED <<invs, connStatus, subValid, cvars>>

\* the client library moves a connection between statuses
StatusChange ==
    /\ \E c \in Conns, st \in Statuses :
        /\ connStatus[c] # st
        /\ connStatus' = [connStatus EXCEPT ![c] = st]
    /\ UNCHANGED <<hpc, hin, herr, hl, subValid, log, invs, cvars>>

\* the application unsubscribes: the subscription is invalid from then on
Unsubscribe ==
    /\ \E s \in Subs :
        /\ subValid[s]
        /\ subValid' = [subValid EXCEPT ![s] = FALSE]
    /\ UNCHANGED <<hpc, hin, herr, hl, connStatus, log, invs, cvars>>

Invoke == \E d \in Dispatchers : HandlerInvoke(d)
Classify == \E d \in Dispatchers : HandlerClassify(d)
Emit == \E d \in Dispatchers : HandlerEmit(d)

HandlerNext ==
    \/ Invoke
    \/ Classify
    \/ Emit
    \/ StatusChange
    \/ Unsubscribe

HandlerSpec == Init /\ [][HandlerNext]_vars

Next ==
    \/ CallConfigure
    \/ CallConnect
    \/ ConfigureEnter
    \/ Discover
    \/ BuildTLS
    \/ Connect
    \/ ConfigureReturn
    \/ Return

Spec == Init /\ [][Next]_vars

----------------------------------------------------------------------------
(* Properties of ConfigureNatsConnection and ConnectToNats *)

CallIdx(op) == {i \in 1..Len(calls) : calls[i].op = op}
Failed == {i \in 1..Len(calls) : calls[i].err # NoErr}
InCall == pc # "idle"

\* the address string the specification asks for, written out per endpoint
ExpectedURL(e) ==
    CASE e = [Target |-> "h1", Port |-> 4222] -> "nats://h1:4222"
      [] e = [Target |-> "h2", Port |-> 80] -> "nats://h2:80"

RECURSIVE CommaJoin(_)
CommaJoin(strs) ==
    IF strs = <<>> THEN ""
    ELSE IF Len(strs) = 1 THEN strs[1]
    ELSE strs[1] \o "," \o CommaJoin(Tail(strs))

ExpectedURLs(endpoints) == [i \in 1..Len(endpoints) |-> ExpectedURL(endpoints[i])]

\* C1: the server string given to nats.Connect is the comma-join of the
\* caller's Servers, with no discovery lookup made, when DiscoveryName is
\* empty; and is "nats://h1:p1,...,nats://hn:pn" over the discovered endpoints
\* in discovery order, whatever Servers held, when DiscoveryName is non-empty.
ServerStringAuthoritative ==
    InCall /\ config0 # NilConfig =>
        /\ \A j \in CallIdx("DiscoverEndpoints") :
              /\ config0.DiscoveryName # ""
              /\ calls[j].in = config0.DiscoveryName
        /\ \A i \in CallIdx("Connect") :
              IF config0.DiscoveryName = ""
              THEN calls[i].in.servers = CommaJoin(config0.Servers)
              ELSE \E j \in CallIdx("DiscoverEndpoints") :
                      /\ j < i
                      /\ calls[j].err = NoErr
                      /\ calls[i].in.servers = CommaJoin(ExpectedURLs(calls[j].out))

\* a connect with two discovered endpoints while Servers held two other addresses
ServerStringWitness ==
    /\ InCall /\ config0 # NilConfig
    /\ config0.DiscoveryName # ""
    /\ config0.Servers = <<"b:4223", "nats://h1:4222">>
    /\ \E i \in CallIdx("Connect") : calls[i].in.servers = "nats://h1:4222,nats://h2:80"

Rank(op) ==
    CASE op = "DiscoverEndpoints" -> 1
      [] op = "TLSConfig" -> 2
      [] op = "Connect" -> 3
      [] op = "AddHook" -> 4

\* C2: a failure of discovery, of the TLS build or of the connect is returned
\* as that very error with a nil connection; the failed step ran once, no step
\* follows a failure, the steps run in the order discovery, TLS build, connect,
\* and no failure ends in a nil error.
ErrorsPropagated ==
    /\ \A i \in Failed : i = Len(calls)
    /\ \A i, j \in 1..Len(calls) : i < j => Rank(calls[i].op) < Rank(calls[j].op)
    /\ pc \in {"configure_ret", "done"} /\ Failed # {} =>
          nc = [conn |-> NilConn, err |-> calls[Len(calls)].err]
    /\ pc = "done" /\ Failed # {} =>
          result = [conn |-> NilConn, err |-> calls[Len(calls)].err]
    /\ pc = "done" /\ result.err # NoErr => Failed # {}

\* ConfigureNatsConnection returned the TLS builder's error after a good discovery
ErrorsPropagatedWitness ==
    /\ pc = "done"
    /\ entry = "ConfigureNatsConnection"
    /\ Len(calls) = 2
    /\ calls[1].op = "DiscoverEndpoints" /\ calls[1].err = NoErr
    /\ calls[2].op = "TLSConfig" /\ calls[2].err \in TLSBuildErrors
    /\ result.err = calls[2].err

\* C3: every field of the caller's NatsConfig has, during and after the call,
\* the value it had when the call was made.
ConfigReadOnly == InCall => config = config0

NilCall == entry = "ConfigureNatsConnection" /\ config0 = NilConfig

\* C4: ConfigureNatsConnection with a nil config returns (nil, nil), calls
\* neither discovery nor the TLS builder nor nats.Connect nor AddHook, and
\* leaves the registered hooks as they were, on every such call.
NilConfigNoOp ==
    [][NilCall' =>
          /\ calls' = <<>>
          /\ hooks' = hooks
          /\ nConn' = nConn
          /\ pc' \in {"configure", "done"}
          /\ pc' = "done" => result' = [conn |-> NilConn, err |-> NoErr]]_vars

\* a second call, with a nil config, has returned; the first had added a hook
NilConfigWitness ==
    /\ NilCall
    /\ pc = "done"
    /\ nCalls = 2
    /\ Len(hooks) = 1

\* C5: ConfigureNatsConnection adds a hook exactly when the connect succeeded
\* and LogsSubject is non-empty; the hook is bound to the connection just
\* returned and to LogsSubject, it is added after the connect, and no hook is
\* added in a call where discovery, the TLS build or the connect failed.
HookOnlyAfterConnect ==
    /\ Len(hooks) <= nConn
    /\ InCall /\ CallIdx("AddHook") # {} =>
          /\ entry = "ConfigureNatsConnection"
          /\ Failed = {}
    /\ \A i \in CallIdx("AddHook") :
          /\ i = Len(calls)
          /\ i > 1
          /\ calls[i - 1].op = "Connect"
          /\ calls[i - 1].err = NoErr
          /\ calls[i].in = [conn |-> calls[i - 1].out, subject |-> config0.LogsSubject]
          /\ hooks # <<>>
          /\ hooks[Len(hooks)] = calls[i].in
          /\ pc = "done"
          /\ result = [conn |-> calls[i].in.conn, err |-> NoErr]
    /\ pc = "done" /\ entry = "ConfigureNatsConnection" /\ config0 # NilConfig =>
          (CallIdx("AddHook") # {}
              <=> /\ config0.LogsSubject # ""
                  /\ \E i \in CallIdx("Connect") : calls[i].err = NoErr)

\* a hook was added on the connection the call returns
HookWitness ==
    /\ pc = "done"
    /\ CallIdx("AddHook") # {}
    /\ hooks[Len(hooks)] = [conn |-> result.conn, subject |-> "logs"]

HasSecure(opts) == \E k \in 1..Len(opts) : opts[k].kind = "Secure"

\* C6: a secure-transport option is passed to nats.Connect exactly when
\* config.TLS is non-nil and the TLS builder returned non-nil settings without
\* error; when it returned nil settings without error the call goes on to
\* nats.Connect without that option and without raising an error of its own.
SecureOptionIffSettings ==
    /\ \A i \in CallIdx("Connect") :
          HasSecure(calls[i].in.options)
              <=> /\ config0.TLS # NilTLS
                  /\ \E j \in CallIdx("TLSConfig") :
                        /\ j < i
                        /\ calls[j].err = NoErr
                        /\ calls[j].out # NilSettings
    /\ \A j \in CallIdx("TLSConfig") :
          /\ config0.TLS # NilTLS
          /\ calls[j].in = config0.TLS
          /\ calls[j].err = NoErr /\ calls[j].out = NilSettings =>
                /\ pc # "tls"
                /\ pc \in {"configure_ret", "done"} =>
                      /\ j + 1 \in CallIdx("Connect")
                      /\ ~HasSecure(calls[j + 1].in.options)
                      /\ nc.err = calls[j + 1].err

\* the builder gave nil settings and the connect was made with the handler alone
SecureOptionWitness ==
    /\ pc = "done"
    /\ \E j \in CallIdx("TLSConfig") :
          /\ calls[j].err = NoErr /\ calls[j].out = NilSettings
          /\ j + 1 \in CallIdx("Connect")
          /\ calls[j + 1].err = NoErr
          /\ calls[j + 1].in.options = <<[kind |-> "ErrorHandler", arg |-> ErrorHandlerClosure]>>
          /\ result.conn = calls[j + 1].out

Kinds(opts) == [k \in 1..Len(opts) |-> opts[k].kind]

\* C10: the options given to nats.Connect hold at most one secure-transport
\* option and at most one error-handler option, the secure one first; nothing
\* of an earlier call's options is in them; the error-handler option is there
\* exactly when the handler argument is non-nil, and so exactly once, holding
\* the ErrorHandler closure, in every connect made by ConfigureNatsConnection.
OptionsShape ==
    \A i \in CallIdx("Connect") :
        LET opts == calls[i].in.options IN
        /\ Kinds(opts) \in {<<>>, <<"Secure">>, <<"ErrorHandler">>, <<"Secure", "ErrorHandler">>}
        /\ (\E k \in 1..Len(opts) : opts[k].kind = "ErrorHandler") <=> errHandler # NilHandler
        /\ \A k \in 1..Len(opts) : opts[k].kind = "ErrorHandler" => opts[k].arg = errHandler
        /\ entry = "ConfigureNatsConnection" =>
              Cardinality({k \in 1..Len(opts) :
                  opts[k] = [kind |-> "ErrorHandler", arg |-> ErrorHandlerClosure]}) = 1

\* a second call connects with both options, after a first call that built options too
OptionsWitness ==
    /\ nCalls = 2
    /\ entry = "ConfigureNatsConnection"
    /\ \E i \in CallIdx("Connect") :
          Kinds(calls[i].in.options) = <<"Secure", "ErrorHandler">>

----------------------------------------------------------------------------
(* Properties of the ErrorHandler closure *)

Entries(id) == {i \in 1..Len(log) : log[i].inv = id}
Running(id) == \E d \in Dispatchers : hin[d].id = id
SlowFetchFailed(v) == v.natsErr = ErrSlowConsumer /\ v.fetched /\ v.perr # NoErr
SlowFetchOK(v) == v.natsErr = ErrSlowConsumer /\ v.fetched /\ v.perr = NoErr

\* C7: the entry an invocation writes carries the pending-count fetch's
\* failure exactly when the incoming error is the slow-consumer error and the
\* fetch failed; otherwise it carries the incoming error.
EmittedError ==
    \A i \in 1..Len(log) :
        LET v == invs[log[i].inv] IN
        /\ SlowFetchFailed(v) => log[i].err = v.perr /\ log[i].err # v.natsErr
        /\ ~SlowFetchFailed(v) => log[i].err = v.natsErr /\ log[i].err \in NatsErrors

\* a slow-consumer report on an unsubscribed subscription was logged with the fetch failure
EmittedErrorWitness ==
    \E i \in 1..Len(log) :
        /\ invs[log[i].inv].natsErr = ErrSlowConsumer
        /\ invs[log[i].inv].perr = ErrBadSubscription
        /\ log[i].err = ErrBadSubscription

\* C8: the entry always has the subject, group and conn_status of its own
\* invocation's subscription and connection; it has pending_messages exactly
\* when the error is the slow-consumer error and the fetch succeeded, with the
\* fetched count; and the count is never fetched for another error.
EmittedFields ==
    /\ \A id \in 1..Len(invs) : invs[id].fetched => invs[id].natsErr = ErrSlowConsumer
    /\ \A i \in 1..Len(log) :
          LET v == invs[log[i].inv]
              f == log[i].fields
          IN
          /\ {"subject", "group", "conn_status"} \subseteq DOMAIN f
          /\ f["subject"] = v.sub.Subject
          /\ f["group"] = v.sub.Queue
          /\ f["conn_status"] = v.status
          /\ "pending_messages" \in DOMAIN f <=> SlowFetchOK(v)
          /\ SlowFetchOK(v) => f["pending_messages"] = v.pendingMsgs

\* a slow-consumer report was logged with pending_messages = 42 and the original error
EmittedFieldsWitness ==
    \E i \in 1..Len(log) :
        /\ "pending_messages" \in DOMAIN log[i].fields
        /\ log[i].fields["pending_messages"] = 42
        /\ log[i].fields["group"] = "workers"
        /\ log[i].err = ErrSlowConsumer

\* the one entry an invocation with arguments and answers v has to write
ExpectedEntry(id, v) ==
    [inv |-> id,
     level |-> "error",
     msg |-> "Error while consuming from " \o v.sub.Subject,
     err |-> IF SlowFetchFailed(v) THEN v.perr ELSE v.natsErr,
     fields |->
        [k \in {"component", "subject", "group", "conn_status"}
                 \cup (IF SlowFetchOK(v) THEN {"pending_messages"} ELSE {}) |->
            CASE k = "component" -> "error-logger"
              [] k = "subject" -> v.sub.Subject
              [] k = "group" -> v.sub.Queue
              [] k = "conn_status" -> v.status
              [] k = "pending_messages" -> v.pendingMsgs]]

HandlerStep == hpc' # hpc

\* C9: under any interleaving of invocations on several dispatchers, every
\* finished invocation has written exactly one error-level entry, built from
\* its own connection, subscription and error alone, a running one has written
\* none, and no step of the callback changes a connection's status or a
\* subscription's validity.
StatelessTap ==
    /\ [](\A id \in 1..Len(invs) :
            IF Running(id)
            THEN Entries(id) = {}
            ELSE /\ Cardinality(Entries(id)) = 1
                 /\ \A i \in Entries(id) : log[i] = ExpectedEntry(id, invs[id]))
    /\ [][HandlerStep => UNCHANGED <<connStatus, subValid>>]_vars

\* two invocations for different subscriptions overlapped and the later one logged first
StatelessTapWitness ==
    /\ Len(log) = 2
    /\ log[1].inv = 2
    /\ log[2].inv = 1
    /\ invs[1].sub # invs[2].sub
    /\ log[1].fields["subject"] # log[2].fields["subject"]

====
